---- MODULE Spec2Model ----
(***************************************************************************)
(* A model of bifrost-go: the block parser of client/client.go             *)
(* (GetBlockByHash, parseExtrinsicByDecode, parseExtrinsicByStorage) and   *)
(* the transaction builder / signer of the tx package (getEra, ReturnSign, *)
(* SignTransaction, signTx).                                               *)
(*                                                                         *)
(* Go slices are sequences; Go's 0-based extrinsic index i names the       *)
(* element extrinsics[i + 1].  A recovered panic is an explicit outcome.   *)
(***************************************************************************)
EXTENDS Integers, Sequences, FiniteSets, TLC

(***************************************************************************)
(* Bounds of the model.                                                    *)
(***************************************************************************)
\* longest block (number of extrinsics) handed to GetBlockByHash
MaxExtrinsics == 3
\* longest event log returned by state_getStorageAt
MaxEvents == 2

(***************************************************************************)
(* Generic helpers.                                                        *)
(***************************************************************************)
\* all sequences over S of length at most n
SeqsUpTo(S, n) == UNION { [1..k -> S] : k \in 0..n }

\* number of positions of s whose element satisfies Test
Count(s, Test(_)) == Cardinality({ k \in 1..Len(s) : Test(s[k]) })

(***************************************************************************)
(* Decoded values.  json.Unmarshal into interface{} yields a string, a     *)
(* float64, a []interface{} or a map; kind records which, so that a Go     *)
(* type assertion on the wrong kind is a panic.                            *)
(***************************************************************************)
StrVal(s)    == [kind |-> "string", str |-> s,  num |-> 0, calls |-> << >>]
NumVal(n)    == [kind |-> "float64", str |-> "", num |-> n, calls |-> << >>]
ListVal(cs)  == [kind |-> "list",   str |-> "", num |-> 0, calls |-> cs]
MapVal       == [kind |-> "map",    str |-> "", num |-> 0, calls |-> << >>]

Param(n, v)  == [Name |-> n, Value |-> v]
Arg(n, raw)  == [Name |-> n, ValueRaw |-> raw]
\* models.UtilityParamsValue: one sub-call of Utility.batch
SubCall(m, f, args) == [CallModule |-> m, CallFunction |-> f, CallArgs |-> args]

(***************************************************************************)
(* ss58.EncodeByPubHex: a 32-byte public key in hex becomes an address of  *)
(* the chain's prefix; anything else is an error.  The caller keeps only   *)
(* the address ("" on error).                                              *)
(***************************************************************************)
ValidPubKeys == {"pkA", "pkB", "pkS"}

Ss58Address(pub) ==
    CASE pub = "pkA" -> "addrA"
      [] pub = "pkB" -> "addrB"
      [] pub = "pkS" -> "addrS"
      [] OTHER -> ""

EncodeByPubHex(pub) ==
    IF pub \in ValidPubKeys
    THEN [addr |-> Ss58Address(pub), err |-> FALSE]
    ELSE [addr |-> "", err |-> TRUE]

\* Client.createTxHash: "0x" + hex(blake2b-256(raw extrinsic bytes))
createTxHash(raw) == <<"0x", "blake2b256", raw>>

(***************************************************************************)
(* One raw extrinsic of a block together with what the extrinsic decoder   *)
(* makes of it (models.ExtrinsicDecodeResponse) and what the node answers  *)
(* to payment_queryInfo for it.  decode is "ok", "error" (hex, decoder or  *)
(* json error: lines 218-239 return it) or "panic" (the decoder panics).   *)
(***************************************************************************)
Ext(raw, dec, mod, fn, acct, sig, nonce, len, ps, fee) ==
    [raw |-> raw, decode |-> dec, CallModule |-> mod, CallModuleFunction |-> fn,
     AccountId |-> acct, Era |-> "00", Signature |-> sig, Nonce |-> nonce,
     Length |-> len, Params |-> ps, partialFee |-> fee]

TransferArgs(dest, value) == << Arg("dest", dest), Arg("value", value) >>

ExtTimestamp ==
    Ext("x_ts", "ok", "Timestamp", "set", "", "", 0, 10,
        << Param("now", NumVal(1600)) >>, "")
ExtStaking ==
    Ext("x_stk", "ok", "Staking", "bond", "pkS", "sig_stk", 3, 140,
        << Param("value", StrVal("9")) >>, "3")
ExtTransferA ==
    Ext("x_ta", "ok", "Balances", "transfer", "pkS", "sig_ta", 4, 143,
        << Param("dest", StrVal("pkA")), Param("value", StrVal("5")) >>, "2")
ExtKeepAliveB ==
    Ext("x_kb", "ok", "Balances", "transfer_keep_alive", "pkS", "sig_kb", 5, 144,
        << Param("dest", StrVal("pkB")), Param("value", StrVal("7")) >>, "")
ExtSetBalance ==
    Ext("x_sb", "ok", "Balances", "set_balance", "pkS", "sig_sb", 6, 150,
        << Param("who", StrVal("pkA")), Param("new_free", StrVal("1")) >>, "2")
\* a transfer whose dest decodes to a MultiAddress record, not a string
ExtTransferMulti ==
    Ext("x_tm", "ok", "Balances", "transfer", "pkS", "sig_tm", 7, 145,
        << Param("dest", MapVal), Param("value", StrVal("5")) >>, "2")
\* a batch paying the same recipient twice
ExtBatchAA ==
    Ext("x_baa", "ok", "Utility", "batch", "pkS", "sig_baa", 8, 210,
        << Param("calls", ListVal(<<
              SubCall("Balances", "transfer", TransferArgs("pkA", "5")),
              SubCall("Balances", "transfer", TransferArgs("pkA", "7")) >>)) >>, "4")
\* a batch of a transfer, a foreign call and a keep-alive transfer
ExtBatchMixed ==
    Ext("x_bmx", "ok", "Utility", "batch", "pkS", "sig_bmx", 9, 260,
        << Param("calls", ListVal(<<
              SubCall("Balances", "transfer", TransferArgs("pkA", "5")),
              SubCall("Staking", "bond", << Arg("dest", "pkB"), Arg("value", "9") >>),
              SubCall("Balances", "set_balance", << Arg("dest", "pkB") >>),
              SubCall("Balances", "transfer_keep_alive", TransferArgs("pkB", "7")) >>)) >>, "4")
\* a batch whose "calls" value is not a list
ExtBatchNoList ==
    Ext("x_bnl", "ok", "Utility", "batch", "pkS", "sig_bnl", 10, 90,
        << Param("calls", MapVal) >>, "4")
ExtUndecodable ==
    Ext("x_bad", "error", "", "", "", "", 0, 0, << >>, "")
ExtDecoderPanics ==
    Ext("x_pan", "panic", "", "", "", "", 0, 0, << >>, "")

ExtrinsicPool ==
    { ExtTimestamp, ExtStaking, ExtTransferA, ExtKeepAliveB, ExtSetBalance,
      ExtTransferMulti, ExtBatchAA, ExtBatchMixed, ExtBatchNoList,
      ExtUndecodable, ExtDecoderPanics }

\* IsTransferFunction that forgets transfer_keep_alive
IsTransferFunction_OnlyTransfer(f) == f = "transfer"

\* lines 248 and 285: the two functions recognised as transfers
IsTransferFunction(f) == f = "transfer" \/ f = "transfer_keep_alive"

(***************************************************************************)
(* parseBlockExtrinsicParams, the candidate built by the decode loop.      *)
(***************************************************************************)
\* the zero value of the struct
EmptyParams ==
    [from |-> "", to |-> "", sig |-> "", era |-> "", txid |-> << >>, nonce |-> 0,
     extrinsicIdx |-> 0, length |-> 0, amount |-> "", Fee |-> ""]

\* lines 258-265: the last "dest" and the last "value" parameter win; a value
\* that is not a string panics in the type assertion
RECURSIVE ScanTransferParams(_, _, _)
ScanTransferParams(ps, k, acc) ==
    IF k > Len(ps) THEN acc
    ELSE LET p == ps[k] IN
         IF p.Name = "dest"
         THEN IF p.Value.kind # "string"
              THEN [acc EXCEPT !.panic = TRUE]
              ELSE ScanTransferParams(ps, k + 1,
                       [acc EXCEPT !.to = EncodeByPubHex(p.Value.str).addr])
         ELSE IF p.Name = "value"
         THEN IF p.Value.kind # "string"
              THEN [acc EXCEPT !.panic = TRUE]
              ELSE ScanTransferParams(ps, k + 1, [acc EXCEPT !.amount = p.Value.str])
         ELSE ScanTransferParams(ps, k + 1, acc)

\* DirectCandidate with a 1-based extrinsic index
DirectCandidate_OneBasedIndex(resp, i) ==
    [EmptyParams EXCEPT
        !.from = EncodeByPubHex(resp.AccountId).addr,
        !.era = resp.Era,
        !.sig = resp.Signature,
        !.nonce = resp.Nonce,
        !.extrinsicIdx = i + 1,
        !.Fee = resp.partialFee,
        !.txid = createTxHash(resp.raw),
        !.length = resp.Length]

\* lines 249-257: the fields of a direct transfer taken from the extrinsic
DirectCandidate(resp, i) ==
    [EmptyParams EXCEPT
        !.from = EncodeByPubHex(resp.AccountId).addr,
        !.era = resp.Era,
        !.sig = resp.Signature,
        !.nonce = resp.Nonce,
        !.extrinsicIdx = i,
        !.Fee = resp.partialFee,
        !.txid = createTxHash(resp.raw),
        !.length = resp.Length]

\* lines 289-297: the candidate of one "dest" argument of a batched transfer
BatchCandidate(resp, i, arg) ==
    [EmptyParams EXCEPT
        !.from = EncodeByPubHex(resp.AccountId).addr,
        !.era = resp.Era,
        !.sig = resp.Signature,
        !.nonce = resp.Nonce,
        !.extrinsicIdx = i,
        !.Fee = resp.partialFee,
        !.txid = createTxHash(resp.raw),
        !.to = EncodeByPubHex(arg.ValueRaw).addr]

\* lines 286-300: one candidate per "dest" argument of a sub-call
RECURSIVE ScanCallArgs(_, _, _, _)
ScanCallArgs(resp, i, args, k) ==
    IF k > Len(args) THEN << >>
    ELSE (IF args[k].Name = "dest" THEN << BatchCandidate(resp, i, args[k]) >> ELSE << >>)
         \o ScanCallArgs(resp, i, args, k + 1)

\* lines 283-304: the sub-calls that are Balances transfers
RECURSIVE ScanBatchValues(_, _, _, _)
ScanBatchValues(resp, i, values, k) ==
    IF k > Len(values) THEN << >>
    ELSE (IF /\ values[k].CallModule = "Balances"
             /\ IsTransferFunction(values[k].CallFunction)
             /\ Len(values[k].CallArgs) > 0
          THEN ScanCallArgs(resp, i, values[k].CallArgs, 1)
          ELSE << >>)
         \o ScanBatchValues(resp, i, values, k + 1)

\* lines 271-309: every "calls" parameter that is a list is expanded
RECURSIVE ScanBatchParams(_, _, _)
ScanBatchParams(resp, i, k) ==
    IF k > Len(resp.Params) THEN << >>
    ELSE (IF resp.Params[k].Name = "calls" /\ resp.Params[k].Value.kind = "list"
          THEN ScanBatchValues(resp, i, resp.Params[k].Value.calls, 1)
          ELSE << >>)
         \o ScanBatchParams(resp, i, k + 1)

\* lines 242-246: the last "now" parameter is the block's timestamp
RECURSIVE ScanTimestamp(_, _, _)
ScanTimestamp(ps, k, acc) ==
    IF k > Len(ps) THEN acc
    ELSE IF ps[k].Name = "now"
         THEN IF ps[k].Value.kind # "float64"
              THEN [acc EXCEPT !.panic = TRUE]
              ELSE ScanTimestamp(ps, k + 1, [acc EXCEPT !.timestamp = ps[k].Value.num])
         ELSE ScanTimestamp(ps, k + 1, acc)

(***************************************************************************)
(* The body of the loop of parseExtrinsicByDecode (lines 216-315) for the  *)
(* extrinsic resp at Go index i, given the candidates ps and the timestamp *)
(* ts collected so far.                                                    *)
(***************************************************************************)
DecodeOne(resp, i, ps, ts) ==
    IF resp.decode # "ok"
    THEN [outcome |-> resp.decode, params |-> ps, timestamp |-> ts]
    ELSE IF resp.CallModule = "Timestamp"
    THEN LET r == ScanTimestamp(resp.Params, 1, [timestamp |-> ts, panic |-> FALSE]) IN
         [outcome |-> IF r.panic THEN "panic" ELSE "ok",
          params |-> ps, timestamp |-> r.timestamp]
    ELSE IF resp.CallModule = "Balances" /\ IsTransferFunction(resp.CallModuleFunction)
    THEN LET r == ScanTransferParams(resp.Params, 1,
                     [to |-> "", amount |-> "", panic |-> FALSE])
             blockData == [DirectCandidate(resp, i) EXCEPT !.to = r.to,
                                                           !.amount = r.amount]
         IN  IF r.panic
             THEN [outcome |-> "panic", params |-> ps, timestamp |-> ts]
             ELSE [outcome |-> "ok", params |-> Append(ps, blockData), timestamp |-> ts]
    ELSE IF resp.CallModule = "Utility" /\ resp.CallModuleFunction = "batch"
    THEN [outcome |-> "ok", params |-> ps \o ScanBatchParams(resp, i, 1),
          timestamp |-> ts]
    ELSE [outcome |-> "ok", params |-> ps, timestamp |-> ts]

\* models.ExtrinsicResponse as built at lines 325-337; Status and Type are
\* left at their zero value
NewExtrinsicResponse(param) ==
    [Signature |-> param.sig, FromAddress |-> param.from, ToAddress |-> param.to,
     Nonce |-> param.nonce, Era |-> param.era, Fee |-> param.Fee,
     ExtrinsicIndex |-> param.extrinsicIdx, Amount |-> param.amount,
     Txid |-> param.txid, ExtrinsicLength |-> param.length,
     Status |-> "", Type |-> ""]

\* lines 316-341: the report entries, one per candidate, in order
BuildExtrinsicResponses(ps) == [k \in 1..Len(ps) |-> NewExtrinsicResponse(ps[k])]

(***************************************************************************)
(* The event log of a block (System.Events), as decoded by                 *)
(* expand.DecodeEventRecords.                                              *)
(***************************************************************************)
ApplyExtrinsic(n) == [IsApplyExtrinsic |-> TRUE,  AsApplyExtrinsic |-> n]
Finalization      == [IsApplyExtrinsic |-> FALSE, AsApplyExtrinsic |-> 0]

EventTransfer(phase, from, to, value) ==
    [kind |-> "Balances_Transfer", Phase |-> phase, From |-> from, To |-> to,
     Value |-> value]
EventExtrinsicFailed(phase) ==
    [kind |-> "System_ExtrinsicFailed", Phase |-> phase, From |-> "", To |-> "",
     Value |-> 0]

EventPool ==
    { EventTransfer(ApplyExtrinsic(0), "pkS", "pkA", 5),
      EventTransfer(ApplyExtrinsic(0), "pkS", "pkA", 7),
      EventTransfer(ApplyExtrinsic(1), "pkS", "pkB", 7),
      EventTransfer(Finalization, "pkS", "pkA", 9),
      EventExtrinsicFailed(ApplyExtrinsic(0)),
      EventExtrinsicFailed(Finalization) }

GetBalancesTransfer(ier) == SelectSeq(ier, LAMBDA ev : ev.kind = "Balances_Transfer")
GetSystemExtrinsicFailed(ier) ==
    SelectSeq(ier, LAMBDA ev : ev.kind = "System_ExtrinsicFailed")

\* lines 385-394: the failure set, filled only when the log holds a transfer
BuildFailedMap(ier) ==
    IF Len(GetBalancesTransfer(ier)) > 0
    THEN LET failed == GetSystemExtrinsicFailed(ier) IN
         { failed[k].Phase.AsApplyExtrinsic :
             k \in { n \in 1..Len(failed) : failed[n].Phase.IsApplyExtrinsic } }
    ELSE {}

\* lines 396-420: one models.EventResult per transfer event attached to an
\* extrinsic whose two addresses encode
RECURSIVE BuildEventResults(_, _)
BuildEventResults(bts, k) ==
    IF k > Len(bts) THEN << >>
    ELSE LET ebt == bts[k]
             from == EncodeByPubHex(ebt.From)
             to   == EncodeByPubHex(ebt.To)
         IN  (IF ~ebt.Phase.IsApplyExtrinsic \/ from.err \/ to.err
              THEN << >>
              ELSE << [ExtrinsicIdx |-> ebt.Phase.AsApplyExtrinsic,
                       From |-> from.addr, To |-> to.addr,
                       Amount |-> ToString(ebt.Value)] >>)
             \o BuildEventResults(bts, k + 1)

\* ApplyEventResult without the look-up in the failure set
ApplyEventResult_IgnoresFailedMap(e, r, failedMap) ==
    IF e.ExtrinsicIndex = r.ExtrinsicIdx /\ e.ToAddress = r.To
    THEN [e EXCEPT !.Status = "success", !.Type = "transfer",
                   !.Amount = r.Amount, !.ToAddress = r.To]
    ELSE e

\* lines 427-440: what one event result r does to the entry e
ApplyEventResult(e, r, failedMap) ==
    IF e.ExtrinsicIndex = r.ExtrinsicIdx /\ e.ToAddress = r.To
    THEN [e EXCEPT !.Status = IF e.ExtrinsicIndex \in failedMap THEN "fail" ELSE "success",
                   !.Type = "transfer",
                   !.Amount = r.Amount,
                   !.ToAddress = r.To]
    ELSE e

\* lines 425-442: every event result is applied in order, none ends the loop
RECURSIVE ApplyEventResults(_, _, _, _)
ApplyEventResults(e, res, k, failedMap) ==
    IF k > Len(res) THEN e
    ELSE ApplyEventResults(ApplyEventResult(e, res[k], failedMap), res, k + 1, failedMap)

\* lines 422-443: the final status of one entry
CorrelateEntry(e, res, failedMap) ==
    ApplyEventResults([e EXCEPT !.Status = "fail", !.Type = "transfer"],
                      res, 1, failedMap)

(***************************************************************************)
(* parseExtrinsicByStorage (lines 347-446) on the entries es.  outcome is  *)
(* what the node and the decoders do: "keyErr" (CreateStorageKey fails),   *)
(* "fetchErr" (state_getStorageAt fails), "decodeErr" (DecodeEventRecords  *)
(* returns an error), "panic" (result.(string) or the event decoder        *)
(* panics) or "ok" with the decoded log ier.  The function's result is     *)
(* unnamed, so the deferred recover, which assigns the local err, makes    *)
(* the function return the zero value nil.                                 *)
(***************************************************************************)
StorageOutcomes == {"ok", "keyErr", "fetchErr", "decodeErr", "panic"}

parseExtrinsicByStorage(es, outcome, ier) ==
    IF Len(es) <= 0
    THEN [err |-> "", Extrinsic |-> es, fetched |-> FALSE]
    ELSE IF outcome = "keyErr"
    THEN [err |-> "create storage key error", Extrinsic |-> es, fetched |-> FALSE]
    ELSE IF outcome = "fetchErr"
    THEN [err |-> "get storage data error", Extrinsic |-> es, fetched |-> TRUE]
    ELSE IF outcome = "decodeErr"
    THEN [err |-> "decode event data error", Extrinsic |-> es, fetched |-> TRUE]
    ELSE IF outcome = "panic"
    THEN [err |-> "", Extrinsic |-> es, fetched |-> TRUE]
    ELSE LET failedMap == BuildFailedMap(ier)
             res == BuildEventResults(GetBalancesTransfer(ier), 1)
         IN  [err |-> "",
              Extrinsic |-> [k \in 1..Len(es) |-> CorrelateEntry(es[k], res, failedMap)],
              fetched |-> TRUE]

(***************************************************************************)
(* State of one GetBlockByHash call.                                       *)
(***************************************************************************)
VARIABLES
    pc,              \* "idle", "decode", "storage" or "returned"
    extrinsics,      \* block.Block.Extrinsics of the block being parsed
    idx,             \* the loop variable i of parseExtrinsicByDecode
    params,          \* the local params of parseExtrinsicByDecode
    timestamp,       \* the local timestamp of parseExtrinsicByDecode
    decodePanicked,  \* the deferred recover of parseExtrinsicByDecode ran
    blockResp,       \* the models.BlockResponse being filled
    storageOutcome,  \* what the event-log lookup did ("none": not reached)
    eventRecords,    \* the decoded event log handed to the correlation
    eventLogFetched, \* state_getStorageAt was called for this block
    retErr           \* the error GetBlockByHash returned ("" is nil)

blockVars == << pc, extrinsics, idx, params, timestamp, decodePanicked, blockResp,
                storageOutcome, eventRecords, eventLogFetched, retErr >>

(***************************************************************************)
(* State of one SubstrateTransaction and of the one call made on it.       *)
(***************************************************************************)
VARIABLES
    tx,          \* the SubstrateTransaction: Nonce, Tip, BlockNumber, EraPeriod, call
    txpc,        \* "building", or the method that returned: "ReturnSign", "SignTransaction"
    eraOut,      \* o.Era after getEra (lines 98-101, 147-150)
    payload,     \* the serialized payload, data at lines 125 and 185
    signData,    \* the bytes ReturnSign returned or signTx handed to crypto.Sign
    signerCalled,\* crypto.Sign was called
    privDecoded, \* what hex.DecodeString put into priv
    privBuf,     \* the contents of priv when signTx returns
    extOut,      \* the extrinsic after the call
    txErr        \* the error returned ("" is nil)

txVars == << tx, txpc, eraOut, payload, signData, signerCalled, privDecoded,
             privBuf, extOut, txErr >>

(***************************************************************************)
(* State of one Client (lines 26-36) and of the checkRuntimeVersion calls  *)
(* made on it.                                                             *)
(***************************************************************************)
VARIABLES
    client,      \* the fields C, Meta, ChainName, SpecVersion, TransactionVersion
    clientpc,    \* "new" before New ran; then "ready", or "failed" when New returned nil
    calls,       \* the number of checkRuntimeVersion calls made so far
    lastCall     \* what the last checkRuntimeVersion call saw, did and returned

clientVars == << client, clientpc, calls, lastCall >>

\* a nil *types.Metadata
NoMetadata == [present |-> FALSE, specVersion |-> 0, decoded |-> FALSE]

\* c := new(Client), line 39: every field holds its zero value
ClientFresh ==
    /\ client = [C |-> 0, Meta |-> NoMetadata, ChainName |-> "", SpecVersion |-> 0,
                 TransactionVersion |-> 0]
    /\ clientpc = "new"
    /\ calls = 0
    /\ lastCall = [observed |-> FALSE, specVersion |-> 0, stored |-> 0,
                   fetched |-> FALSE, err |-> ""]

EmptyBlockResp == [Timestamp |-> 0, Extrinsic |-> << >>]

\* a transaction on which nothing was called yet; only its nonce is given
\* (NewSubstrateTransaction, lines 32-37)
TxFresh(nonce) ==
    /\ tx = [Nonce |-> nonce, Tip |-> 0, BlockNumber |-> 0, EraPeriod |-> 0,
             call |-> [set |-> FALSE, name |-> "", len |-> 0]]
    /\ txpc = "building"
    /\ eraOut = [IsMortalEra |-> FALSE, IsImmortalEra |-> FALSE, First |-> 0, Second |-> 0]
    /\ payload = [hashed |-> FALSE, len |-> 0, method |-> "", era |-> eraOut,
                  nonce |-> 0, tip |-> 0]
    /\ signData = payload
    /\ signerCalled = FALSE
    /\ privDecoded = << >>
    /\ privBuf = << >>
    /\ extOut = [Version |-> 0, sigKind |-> "", sigBy |-> "", sigKey |-> << >>,
                 sigOver |-> payload]
    /\ txErr = ""

\* no GetBlockByHash call was made yet
BlockIdle ==
    /\ pc = "idle"
    /\ extrinsics = << >>
    /\ idx = 0
    /\ params = << >>
    /\ timestamp = 0
    /\ decodePanicked = FALSE
    /\ blockResp = EmptyBlockResp
    /\ storageOutcome = "none"
    /\ eventRecords = << >>
    /\ eventLogFetched = FALSE
    /\ retErr = ""

BlockInit == BlockIdle /\ TxFresh(0) /\ ClientFresh

\* lines 160-178: checkRuntimeVersion and chain_getBlock; pre is their outcome.
\* Every call starts from fresh locals and a fresh report, so one call is a
\* whole behaviour.
GetBlockByHash ==
    /\ pc = "idle"
    /\ \E block \in SeqsUpTo(ExtrinsicPool, MaxExtrinsics),
          pre \in {"ok", "runtime version error", "get block error"} :
          /\ extrinsics' = IF pre = "ok" THEN block ELSE << >>
          /\ retErr' = IF pre = "ok" THEN "" ELSE pre
          /\ pc' = IF pre = "ok" /\ Len(block) > 0 THEN "decode" ELSE "returned"
    /\ idx' = 0
    /\ params' = << >>
    /\ timestamp' = 0
    /\ decodePanicked' = FALSE
    /\ blockResp' = EmptyBlockResp
    /\ storageOutcome' = "none"
    /\ eventRecords' = << >>
    /\ eventLogFetched' = FALSE
    /\ UNCHANGED << txVars, clientVars >>

\* a recover that keeps the candidates collected before the panic
RecoverDecode_KeepsCandidates(resp, ts) ==
    [resp EXCEPT !.Timestamp = ts, !.Extrinsic = BuildExtrinsicResponses(params)]

\* lines 208-214: the deferred recover of parseExtrinsicByDecode
RecoverDecode(resp, ts) == [resp EXCEPT !.Timestamp = ts, !.Extrinsic = << >>]

\* lines 216-315: one iteration of the decode loop
DecodeStep ==
    /\ pc = "decode"
    /\ idx < Len(extrinsics)
    /\ LET r == DecodeOne(extrinsics[idx + 1], idx, params, timestamp) IN
          /\ params' = r.params
          /\ timestamp' = r.timestamp
          /\ idx' = IF r.outcome = "ok" THEN idx + 1 ELSE idx
          /\ decodePanicked' = (r.outcome = "panic")
          /\ blockResp' = IF r.outcome = "panic"
                          THEN RecoverDecode(blockResp, r.timestamp)
                          ELSE blockResp
          /\ pc' = CASE r.outcome = "ok" -> "decode"
                     [] r.outcome = "error" -> "returned"
                     [] r.outcome = "panic" -> "storage"
          /\ retErr' = IF r.outcome = "error" THEN "decode extrinsic error" ELSE ""
    /\ UNCHANGED << extrinsics, storageOutcome, eventRecords, eventLogFetched >>
    /\ UNCHANGED << txVars, clientVars >>

\* lines 316-341: the loop is over; the candidates become the report entries
DecodeFinish ==
    /\ pc = "decode"
    /\ idx = Len(extrinsics)
    /\ blockResp' = [blockResp EXCEPT !.Timestamp = timestamp,
                                      !.Extrinsic = BuildExtrinsicResponses(params)]
    /\ pc' = "storage"
    /\ UNCHANGED << extrinsics, idx, params, timestamp, decodePanicked,
                    storageOutcome, eventRecords, eventLogFetched, retErr >>
    /\ UNCHANGED << txVars, clientVars >>

\* lines 183-188 with parseExtrinsicByStorage: the correlation and the return
CorrelateAndReturn ==
    /\ pc = "storage"
    /\ \E outcome \in StorageOutcomes, ier \in SeqsUpTo(EventPool, MaxEvents) :
          \* inputs that are not read are not inputs
          /\ Len(blockResp.Extrinsic) = 0 => outcome = "ok" /\ ier = << >>
          /\ outcome # "ok" => ier = << >>
          /\ LET r == parseExtrinsicByStorage(blockResp.Extrinsic, outcome, ier) IN
                /\ blockResp' = [blockResp EXCEPT !.Extrinsic = r.Extrinsic]
                /\ eventLogFetched' = r.fetched
                /\ retErr' = r.err
                /\ storageOutcome' = IF Len(blockResp.Extrinsic) = 0 THEN "skipped"
                                     ELSE outcome
                /\ eventRecords' = ier
    /\ pc' = "returned"
    /\ UNCHANGED << extrinsics, idx, params, timestamp, decodePanicked >>
    /\ UNCHANGED << txVars, clientVars >>

BlockNext == GetBlockByHash \/ DecodeStep \/ DecodeFinish \/ CorrelateAndReturn

vars == << blockVars, txVars, clientVars >>

\* the block parser alone
SpecBlock == BlockInit /\ [][BlockNext]_vars

\* GetBlockByHash returned a report (and no error)
ReportReturned == pc = "returned" /\ retErr = ""

(***************************************************************************)
(* The transaction builder and signer (package tx).                        *)
(***************************************************************************)
\* line 190 (and 129): payloads longer than this are hashed before signing
PayloadHashThreshold == 256
\* line 237: index := uint64(6)
EraIndex == 6
\* types.ExtrinsicVersion4, the only extrinsic version accepted (lines 102, 161)
ExtrinsicVersion4 == 4
\* types.ExtrinsicBitSigned, or-ed into the version at line 229
ExtrinsicBitSigned == 128

\* the zero value of types.ExtrinsicEra, and the immortal era of lines 111, 170
ZeroEra     == [IsMortalEra |-> FALSE, IsImmortalEra |-> FALSE, First |-> 0, Second |-> 0]
ImmortalEra == [IsMortalEra |-> FALSE, IsImmortalEra |-> TRUE,  First |-> 0, Second |-> 0]

(***************************************************************************)
(* getEra (lines 232-260).  The arithmetic is uint64; byte(x) keeps the    *)
(* low eight bits.  phase / 1 << 4 is (phase / 1) << 4 in Go.  The block   *)
(* numbers and periods of the model stay below 2^27, where the shift does  *)
(* not wrap in 64 bits.                                                    *)
(***************************************************************************)
getEra(t) ==
    IF t.BlockNumber = 0 \/ t.EraPeriod = 0
    THEN [isNil |-> TRUE, era |-> ZeroEra]
    ELSE LET phase == t.BlockNumber % t.EraPeriod
             index == EraIndex
             trailingZero == index - 1
             encoded0 == IF trailingZero > 1 THEN trailingZero ELSE 1
             encoded1 == IF trailingZero < 15 THEN trailingZero ELSE 15
             encoded == encoded1 + ((phase \div 1) * 16)
             first == (encoded \div 256) % 256
             second == (encoded % 256) % 256
         IN  [isNil |-> FALSE,
              era |-> [IsMortalEra |-> TRUE, IsImmortalEra |-> FALSE,
                       First |-> first, Second |-> second]]

\* lines 98-101 and 147-150: o.Era stays the zero value when getEra is nil
SignatureOptionsEra(t) == IF getEra(t).isNil THEN ZeroEra ELSE getEra(t).era

\* lines 109-112 and 168-171: the era of the payload
PayloadEra(oEra) == IF ~oEra.IsMortalEra THEN ImmortalEra ELSE oEra

\* expand.NewExtrinsic: a version-4 extrinsic around the call
NewExtrinsic(call) ==
    [Version |-> ExtrinsicVersion4, Method |-> call]

\* Extrinsic.Type: the version without the signed bit
ExtrinsicType(e) == e.Version % ExtrinsicBitSigned

\* types.EncodeToBytes(e.Method): a call that was never set is the zero
\* types.Call, two index bytes and no arguments
MethodBytes(call) ==
    IF call.set THEN [name |-> call.name, len |-> call.len]
    ELSE [name |-> "", len |-> 2]

\* the length of a SCALE compact integer
CompactLen(n) ==
    IF n < 64 THEN 1 ELSE IF n < 16384 THEN 2 ELSE IF n < 1073741824 THEN 4 ELSE 5

\* the length of an encoded era: one byte immortal, two bytes mortal
EraLen(era) == IF era.IsMortalEra THEN 2 ELSE 1

\* types.EncodeToBytes(payload) of lines 113-125 and 172-185: the method
\* bytes, era, compact nonce and tip, two u32 versions and two 32-byte hashes
EncodePayload(t, mb, era) ==
    [hashed |-> FALSE,
     len |-> mb.len + EraLen(era) + CompactLen(t.Nonce) + CompactLen(t.Tip)
             + 4 + 4 + 32 + 32,
     method |-> mb.name, era |-> era, nonce |-> t.Nonce, tip |-> t.Tip]

\* blake2b.Sum256: 32 bytes that stand for the data hashed
Blake2b256(data) == [data EXCEPT !.hashed = TRUE, !.len = 32]

\* HashIfOversized that already hashes a payload of exactly the threshold
HashIfOversized_AtThreshold(data) ==
    IF data.len >= PayloadHashThreshold THEN Blake2b256(data) ELSE data

\* lines 129-132 and 190-193
HashIfOversized(data) ==
    IF data.len > PayloadHashThreshold THEN Blake2b256(data) ELSE data

(***************************************************************************)
(* The private key string: an optional "0x" and a sequence of characters,  *)
(* each a hex digit 0..15 or, as 16, a character that is no hex digit.     *)
(***************************************************************************)
NotHex == 16

PrivateKeyPool ==
    { [prefix |-> TRUE,  chars |-> << 1, 2, 10, 11 >>],
      [prefix |-> FALSE, chars |-> << 1, 2, 10, 11 >>],
      [prefix |-> FALSE, chars |-> << 1, 2, NotHex, 11 >>],
      [prefix |-> FALSE, chars |-> << 1, 2, 3 >>],
      [prefix |-> FALSE, chars |-> << NotHex, 1 >>],
      [prefix |-> FALSE, chars |-> << >>] }

\* strings.TrimPrefix(privateKey, "0x")
TrimPrefix0x(key) == key.chars

\* hex.DecodeString: pairs of digits become bytes; at a character that is no
\* digit, or at a lone last character, it returns the bytes decoded so far
\* together with the error
RECURSIVE HexDecode(_, _, _)
HexDecode(src, j, acc) ==
    IF j <= Len(src)
    THEN IF src[j - 1] > 15 \/ src[j] > 15
         THEN [bytes |-> acc, err |-> TRUE]
         ELSE HexDecode(src, j + 2, Append(acc, src[j - 1] * 16 + src[j]))
    ELSE IF Len(src) % 2 = 1
    THEN [bytes |-> acc, err |-> TRUE]
    ELSE [bytes |-> acc, err |-> FALSE]

hexDecodeString(src) == HexDecode(src, 2, << >>)

\* utils.ZeroBytes: every byte of the buffer becomes 0
ZeroBytes(buf) == [k \in 1..Len(buf) |-> 0]

SignTypes == {"Ed25519", "Sr25519", "Ecdsa", "unknown"}

BlockNumberPool == {0, 7, 4100, 70003}
EraPeriodPool == {0, 64, 8192, 100000}
NoncePool == {0, 100}
TipPool == {100}
CallPool ==
    { [set |-> TRUE, name |-> "Balances.transfer", len |-> 35],
      [set |-> TRUE, name |-> "Utility.batch", len |-> 180],
      [set |-> TRUE, name |-> "Utility.batch", len |-> 181],
      [set |-> TRUE, name |-> "Utility.batch", len |-> 182] }

TxInit == BlockIdle /\ ClientFresh /\ \E nonce \in NoncePool : TxFresh(nonce)

(***************************************************************************)
(* The setters (lines 69-85).                                              *)
(***************************************************************************)
TxResultsUnchanged ==
    UNCHANGED << txpc, eraOut, payload, signData, signerCalled, privDecoded,
                 privBuf, extOut, txErr >>

SetTip ==
    /\ txpc = "building"
    /\ \E tip \in TipPool : tx' = [tx EXCEPT !.Tip = tip]
    /\ TxResultsUnchanged
    /\ UNCHANGED << blockVars, clientVars >>

SetEra ==
    /\ txpc = "building"
    /\ \E blockNumber \in BlockNumberPool, eraPeriod \in EraPeriodPool :
          tx' = [tx EXCEPT !.BlockNumber = blockNumber, !.EraPeriod = eraPeriod]
    /\ TxResultsUnchanged
    /\ UNCHANGED << blockVars, clientVars >>

SetCall ==
    /\ txpc = "building"
    /\ \E call \in CallPool : tx' = [tx EXCEPT !.call = call]
    /\ TxResultsUnchanged
    /\ UNCHANGED << blockVars, clientVars >>

\* ReturnSign (lines 88-134)
ReturnSign ==
    /\ txpc = "building"
    /\ LET ext == NewExtrinsic(tx.call)
           oEra == SignatureOptionsEra(tx)
           eras == PayloadEra(oEra)
           data == EncodePayload(tx, MethodBytes(ext.Method), eras)
       IN  IF ExtrinsicType(ext) # ExtrinsicVersion4
           THEN /\ txErr' = "unsupported extrinsic version"
                /\ UNCHANGED << eraOut, payload, signData >>
           ELSE /\ txErr' = ""
                /\ eraOut' = eras
                /\ payload' = data
                /\ signData' = HashIfOversized(data)
    /\ txpc' = "ReturnSign"
    /\ UNCHANGED << tx, signerCalled, privDecoded, privBuf, extOut >>
    /\ UNCHANGED << blockVars, clientVars >>

\* lines 211-220: the multi-signature variant of a sign type ("" is none)
MultiSignatureKind(signType) ==
    CASE signType = "Ed25519" -> "IsEd25519"
      [] signType = "Sr25519" -> "IsSr25519"
      [] signType = "Ecdsa"   -> "IsEcdsa"
      [] OTHER -> ""

(***************************************************************************)
(* SignTransaction (lines 136-158) with signTx (lines 160-231).  signOk is *)
(* whether crypto.Sign returns a signature.  The deferred ZeroBytes is     *)
(* registered at line 200, after the return of line 197.                   *)
(***************************************************************************)
SignTransaction ==
    /\ txpc = "building"
    /\ \E privateKey \in PrivateKeyPool, signType \in SignTypes, signOk \in BOOLEAN :
          LET ext == NewExtrinsic(tx.call)
              oEra == SignatureOptionsEra(tx)
              era == PayloadEra(oEra)
              data == HashIfOversized(EncodePayload(tx, MethodBytes(ext.Method), era))
              priv == hexDecodeString(TrimPrefix0x(privateKey))
          IN  IF ExtrinsicType(ext) # ExtrinsicVersion4
              THEN /\ txErr' = "sign error: unsupported extrinsic version"
                   /\ UNCHANGED << eraOut, payload, signData, signerCalled,
                                   privDecoded, privBuf, extOut >>
              ELSE /\ eraOut' = era
                   /\ payload' = EncodePayload(tx, MethodBytes(ext.Method), era)
                   /\ privDecoded' = priv.bytes
                   /\ IF priv.err
                      THEN /\ txErr' = "sign error: hex decode private key error"
                           /\ privBuf' = priv.bytes
                           /\ UNCHANGED << signData, signerCalled, extOut >>
                      ELSE /\ privBuf' = ZeroBytes(priv.bytes)
                           /\ signerCalled' = TRUE
                           /\ signData' = data
                           /\ IF ~signOk
                              THEN /\ txErr' = "sign error: sign error"
                                   /\ UNCHANGED extOut
                              ELSE IF MultiSignatureKind(signType) = ""
                              THEN /\ txErr' = "sign error: unsupport sign type"
                                   /\ UNCHANGED extOut
                              ELSE /\ txErr' = ""
                                   /\ extOut' = [Version |-> ext.Version + ExtrinsicBitSigned,
                                                 sigKind |-> MultiSignatureKind(signType),
                                                 sigBy |-> signType,
                                                 sigKey |-> priv.bytes,
                                                 sigOver |-> data]
    /\ txpc' = "SignTransaction"
    /\ UNCHANGED tx
    /\ UNCHANGED << blockVars, clientVars >>

TxNext == SetTip \/ SetEra \/ SetCall \/ ReturnSign \/ SignTransaction

\* one transaction, built and then signed or handed out for signing
SpecTx == TxInit /\ [][TxNext]_vars

(***************************************************************************)
(* The Client and its runtime version check (client.go, lines 38-112).     *)
(* The node's answers are inputs: the runtime version it reports and how   *)
(* each RPC ends.                                                          *)
(***************************************************************************)
MaxCalls == 3

SpecVersionPool == {0, 1, 2}

\* what state_getRuntimeVersion can answer (types.RuntimeVersion)
RuntimeVersionPool ==
    [SpecName : {"bifrost"}, SpecVersion : SpecVersionPool, TransactionVersion : {1, 2}]

\* how lines 84-98 end: the first GetRuntimeVersionLatest answers or fails;
\* on "tls: use of closed connection" reConnectWs fails, or succeeds and the
\* second GetRuntimeVersionLatest fails or answers
VersionOutcomes ==
    {"ok", "error", "closed, reconnect error", "closed, error again", "closed, ok"}

MetadataOutcomes == {"ok", "rpc error", "decode error"}

\* line 105, the value GetMetadataLatest hands back next to its error: the
\* metadata of the runtime v, nil when the RPC failed, and what was decoded
\* so far when the decoding failed
GetMetadataLatest(v, fetch) ==
    CASE fetch = "ok" ->
             [present |-> TRUE, specVersion |-> v.SpecVersion, decoded |-> TRUE]
      [] fetch = "decode error" ->
             [present |-> TRUE, specVersion |-> v.SpecVersion, decoded |-> FALSE]
      [] OTHER -> NoMetadata

\* checkRuntimeVersion (lines 83-112) on the client c: the client after the
\* call, the error returned ("" is nil), whether a runtime version was
\* observed and whether the metadata was fetched
checkRuntimeVersion(c, rpc, v, fetch) ==
    LET reconnected == [c EXCEPT !.C = c.C + 1]
        conn == IF rpc = "closed, ok" THEN reconnected ELSE c
        versioned == [conn EXCEPT !.TransactionVersion = v.TransactionVersion,
                                  !.ChainName = v.SpecName]
        fetched == [versioned EXCEPT !.Meta = GetMetadataLatest(v, fetch)]
    IN  CASE rpc = "error" ->
                 [c |-> c, err |-> "init runtime version error",
                  observed |-> FALSE, fetched |-> FALSE]
          [] rpc = "closed, reconnect error" ->
                 [c |-> c, err |-> "reconnect error",
                  observed |-> FALSE, fetched |-> FALSE]
          [] rpc = "closed, error again" ->
                 [c |-> reconnected,
                  err |-> "init runtime version error,aleady reconnect",
                  observed |-> FALSE, fetched |-> FALSE]
          [] OTHER ->
                 IF v.SpecVersion = c.SpecVersion
                 THEN [c |-> versioned, err |-> "",
                       observed |-> TRUE, fetched |-> FALSE]
                 ELSE IF fetch # "ok"
                 THEN [c |-> fetched, err |-> "init metadata error",
                       observed |-> TRUE, fetched |-> TRUE]
                 ELSE [c |-> [fetched EXCEPT !.SpecVersion = v.SpecVersion],
                       err |-> "", observed |-> TRUE, fetched |-> TRUE]

\* the record of a call: the version it observed, the SpecVersion stored
\* when it started, whether it fetched the metadata, and its error
CallRecord(r, v, stored) ==
    [observed |-> r.observed,
     specVersion |-> IF r.observed THEN v.SpecVersion ELSE 0,
     stored |-> stored,
     fetched |-> r.fetched,
     err |-> r.err]

ClientInit == BlockIdle /\ TxFresh(0) /\ ClientFresh

\* New (lines 38-66).  It returns nil when the basic types, the connection
\* or the runtime version check fail; lines 58-64 set the address prefix
\* and the codec options, which the version check never reads.
New ==
    /\ clientpc = "new"
    /\ \E setup \in {"ok", "basic types error", "connect error"},
          rpc \in VersionOutcomes, v \in RuntimeVersionPool,
          fetch \in MetadataOutcomes :
          IF setup # "ok"
          THEN /\ clientpc' = "failed"
               /\ UNCHANGED << client, calls, lastCall >>
          ELSE LET r == checkRuntimeVersion(client, rpc, v, fetch)
               IN  /\ client' = r.c
                   /\ calls' = calls + 1
                   /\ lastCall' = CallRecord(r, v, client.SpecVersion)
                   /\ clientpc' = IF r.err = "" THEN "ready" ELSE "failed"
    /\ UNCHANGED << blockVars, txVars >>

\* the later calls, of GetBlockByHash (line 165) and GetAccountInfo (line 471)
CallCheckRuntimeVersion ==
    /\ clientpc = "ready"
    /\ calls < MaxCalls
    /\ \E rpc \in VersionOutcomes, v \in RuntimeVersionPool,
          fetch \in MetadataOutcomes :
          LET r == checkRuntimeVersion(client, rpc, v, fetch)
          IN  /\ client' = r.c
              /\ calls' = calls + 1
              /\ lastCall' = CallRecord(r, v, client.SpecVersion)
    /\ UNCHANGED clientpc
    /\ UNCHANGED << blockVars, txVars >>

ClientNext == New \/ CallCheckRuntimeVersion

\* one client, from New through a sequence of runtime version checks
SpecClient == ClientInit /\ [][ClientNext]_vars

(***************************************************************************)
(* Vocabulary of the claims about the correlation.  It is stated on the    *)
(* raw event log and on the candidates, not on the intermediate values of  *)
(* parseExtrinsicByStorage.                                                *)
(***************************************************************************)
\* parseExtrinsicByStorage ran to its last line on a non-empty report
CorrelationCompleted == pc = "returned" /\ storageOutcome = "ok"

\* ev is a balance-transfer event attached to the extrinsic of candidate c
\* whose resolved recipient is c's recipient
EventMatches(ev, c) ==
    /\ ev.kind = "Balances_Transfer"
    /\ ev.Phase.IsApplyExtrinsic
    /\ ev.Phase.AsApplyExtrinsic = c.extrinsicIdx
    /\ ~EncodeByPubHex(ev.To).err
    /\ EncodeByPubHex(ev.To).addr = c.to

MatchingEvents(c) == SelectSeq(eventRecords, LAMBDA ev : EventMatches(ev, c))

\* the extrinsic-failed set of the log
FailedIndices ==
    { eventRecords[k].Phase.AsApplyExtrinsic :
        k \in { n \in 1..Len(eventRecords) :
                  /\ eventRecords[n].kind = "System_ExtrinsicFailed"
                  /\ eventRecords[n].Phase.IsApplyExtrinsic } }

Entries == blockResp.Extrinsic

\* C1: after parseExtrinsicByStorage completed normally on a non-empty report,
\* an entry is "success" exactly when a balance-transfer event of its
\* extrinsic index resolves to its recipient and the index is not in the
\* extrinsic-failed set; every other entry is "fail".
C1_StatusIffMatchingUnfailedEvent ==
    CorrelationCompleted =>
        /\ Len(Entries) = Len(params)
        /\ \A k \in 1..Len(Entries) :
              LET ok == /\ Len(MatchingEvents(params[k])) > 0
                        /\ params[k].extrinsicIdx \notin FailedIndices
              IN  Entries[k].Status = IF ok THEN "success" ELSE "fail"

\* C1 witness: a completed correlation with a successful entry next to an
\* entry that no event matches
C1_Witness ==
    /\ CorrelationCompleted
    /\ \E k \in 1..Len(Entries) : Entries[k].Status = "success"
    /\ \E k \in 1..Len(Entries) :
          Entries[k].Status = "fail" /\ Len(MatchingEvents(params[k])) = 0

\* the position of candidate k among the candidates of its extrinsic index
\* and recipient
RankAmongTwins(k) ==
    Cardinality({ j \in 1..k : /\ params[j].extrinsicIdx = params[k].extrinsicIdx
                               /\ params[j].to = params[k].to })

TwinCount(k) ==
    Cardinality({ j \in 1..Len(params) :
                    /\ params[j].extrinsicIdx = params[k].extrinsicIdx
                    /\ params[j].to = params[k].to })

\* C2: after correlation the amount of an entry is the value carried by the
\* balance-transfer event that matches it (same extrinsic index, same
\* resolved recipient), whatever the call said; an unmatched entry keeps the
\* decoded recipient and amount.  Where a batch puts several candidates on
\* one index and the log holds as many matching events, "the event that
\* matches it" is the event of the same rank; otherwise it is one of the
\* matching events.
C2_AmountIsMatchingEventValue ==
    CorrelationCompleted =>
        \A k \in 1..Len(Entries) :
            LET M == MatchingEvents(params[k]) IN
            IF Len(M) = 0
            THEN /\ Entries[k].ToAddress = params[k].to
                 /\ Entries[k].Amount = params[k].amount
            ELSE IF Len(M) = TwinCount(k)
            THEN Entries[k].Amount = ToString(M[RankAmongTwins(k)].Value)
            ELSE \E n \in 1..Len(M) : Entries[k].Amount = ToString(M[n].Value)

(***************************************************************************)
(* Vocabulary of the claims about the decode loop.                         *)
(***************************************************************************)
\* the candidates produced for the extrinsic at Go index j
CandidatesAt(j) == SelectSeq(params, LAMBDA c : c.extrinsicIdx = j)

IsBatch(ext) ==
    ext.decode = "ok" /\ ext.CallModule = "Utility" /\ ext.CallModuleFunction = "batch"

IsBalancesTransferCall(sc) ==
    /\ sc.CallModule = "Balances"
    /\ sc.CallFunction \in {"transfer", "transfer_keep_alive"}

DestCount(sc) == Count(sc.CallArgs, LAMBDA a : a.Name = "dest")

\* the "calls" lists of a batch extrinsic, as positions <<parameter, sub-call>>
BatchSubCalls(ext) ==
    UNION { { <<p, q>> : q \in 1..Len(ext.Params[p].Value.calls) } :
              p \in { n \in 1..Len(ext.Params) :
                        /\ ext.Params[n].Name = "calls"
                        /\ ext.Params[n].Value.kind = "list" } }

SubCallAt(ext, pq) == ext.Params[pq[1]].Value.calls[pq[2]]

\* C5: a Utility.batch extrinsic at position j whose calls list holds k
\* Balances transfer / transfer_keep_alive sub-calls, each with one "dest"
\* argument, yields exactly k candidates, all with extrinsic index j and the
\* signature, nonce and transaction id of the batch extrinsic; other
\* sub-calls yield none.
C5_BatchYieldsOneCandidatePerTransfer ==
    \A j \in 0..(idx - 1) :
        LET ext == extrinsics[j + 1]
            transfers == { pq \in BatchSubCalls(ext) :
                             IsBalancesTransferCall(SubCallAt(ext, pq)) }
        IN  ( /\ IsBatch(ext)
              /\ \A pq \in transfers : DestCount(SubCallAt(ext, pq)) = 1 )
            => /\ Len(CandidatesAt(j)) = Cardinality(transfers)
               /\ \A n \in 1..Len(CandidatesAt(j)) :
                     /\ CandidatesAt(j)[n].sig = ext.Signature
                     /\ CandidatesAt(j)[n].nonce = ext.Nonce
                     /\ CandidatesAt(j)[n].txid = createTxHash(ext.raw)

\* C5 witness: a processed batch with a foreign sub-call between two
\* transfers, which produced two candidates
C5_Witness ==
    \E j \in 0..(idx - 1) :
        /\ IsBatch(extrinsics[j + 1])
        /\ \E pq \in BatchSubCalls(extrinsics[j + 1]) :
              ~IsBalancesTransferCall(SubCallAt(extrinsics[j + 1], pq))
        /\ Len(CandidatesAt(j)) = 2

ValidPosition(e) == 0 <= e.ExtrinsicIndex /\ e.ExtrinsicIndex < Len(extrinsics)

\* C6 as stated: in every returned report the extrinsic indices of the
\* entries are pairwise distinct and are positions of the block.
C6_IndexUniqueAndValid ==
    ReportReturned =>
        /\ \A k \in 1..Len(Entries) : ValidPosition(Entries[k])
        /\ \A k, n \in 1..Len(Entries) :
              k # n => Entries[k].ExtrinsicIndex # Entries[n].ExtrinsicIndex

\* C6 amended: in every returned report the extrinsic index of every entry
\* is a position of the block, and two entries share an index only when the
\* extrinsic at that position is a Utility.batch (whose candidates all
\* carry its index).
C6_IndexValidAndSharedOnlyByBatch ==
    ReportReturned =>
        /\ \A k \in 1..Len(Entries) : ValidPosition(Entries[k])
        /\ \A k, n \in 1..Len(Entries) :
              (k # n /\ Entries[k].ExtrinsicIndex = Entries[n].ExtrinsicIndex)
                  => IsBatch(extrinsics[Entries[k].ExtrinsicIndex + 1])

\* C6 witness: a returned report with two entries of one batch and an entry
\* of a direct transfer at the last position of the block
C6_Witness ==
    /\ ReportReturned
    /\ \E k, n \in 1..Len(Entries) :
          k # n /\ Entries[k].ExtrinsicIndex = Entries[n].ExtrinsicIndex
    /\ \E k \in 1..Len(Entries) :
          /\ Entries[k].ExtrinsicIndex = Len(extrinsics) - 1
          /\ ~IsBatch(extrinsics[Entries[k].ExtrinsicIndex + 1])

\* C7: every candidate emitted by parseExtrinsicByDecode for a recognised
\* transfer (direct or inside a batch) has a recipient and an amount.
C7_CandidatesFullyPopulated ==
    \A k \in 1..Len(params) : params[k].to # "" /\ params[k].amount # ""

\* C8: when decoding an extrinsic panics, GetBlockByHash returns no error
\* and a report with an empty transfer list, whatever was collected before,
\* and the event log is not fetched.
C8_DecodePanicYieldsEmptyReport ==
    decodePanicked =>
        /\ blockResp.Extrinsic = << >>
        /\ ~eventLogFetched
        /\ retErr = ""
        /\ pc \in {"storage", "returned"}
        /\ pc = "returned" => storageOutcome = "skipped"

\* C8 witness: the call returned after a panic at a later position, with
\* candidates already collected
C8_Witness ==
    /\ decodePanicked
    /\ pc = "returned"
    /\ idx > 0
    /\ Len(params) > 0

\* C9: with at least one candidate, every correlation failure (storage key,
\* fetch, event decode, recovered panic) makes GetBlockByHash return an
\* error, and no returned report holds a status other than "success" or
\* "fail".
C9_CorrelationFailureIsAnError ==
    /\ (pc = "returned" /\ storageOutcome \in (StorageOutcomes \ {"ok"}))
          => retErr # ""
    /\ ReportReturned =>
          \A k \in 1..Len(Entries) : Entries[k].Status \in {"success", "fail"}

(***************************************************************************)
(* Claims about the transaction builder and signer.                        *)
(***************************************************************************)
\* C3: getEra yields the immortal era when BlockNumber = 0 or EraPeriod = 0;
\* otherwise a mortal era whose bytes satisfy
\* second | (first << 8) = class_nibble + ((BlockNumber mod EraPeriod) << 4),
\* the class nibble being the clamp to 1..15 of the trailing-bit index 6
\* less one: nothing of the encoded value is lost in the two bytes.
C3_EraBytesReproduceEncoded ==
    txpc \in {"ReturnSign", "SignTransaction"} =>
        LET raw == 6 - 1
            nibble == IF raw < 1 THEN 1 ELSE IF raw > 15 THEN 15 ELSE raw
        IN  IF tx.BlockNumber = 0 \/ tx.EraPeriod = 0
            THEN eraOut.IsImmortalEra /\ ~eraOut.IsMortalEra
            ELSE /\ eraOut.IsMortalEra
                 /\ nibble \in 1..15
                 /\ eraOut.Second + (eraOut.First * 256)
                       = nibble + ((tx.BlockNumber % tx.EraPeriod) * 16)

\* the bytes that went to the signer, or came back for external signing
SigningBytesProduced ==
    \/ txpc = "ReturnSign" /\ txErr = ""
    \/ txpc = "SignTransaction" /\ signerCalled

\* C4: in signTx and in ReturnSign the bytes to sign are the serialized
\* payload itself when it is at most 256 bytes long, and its 32-byte hash
\* when it is longer.
C4_HashedOnlyAbove256 ==
    SigningBytesProduced =>
        /\ payload.len <= 256 => signData = payload /\ ~signData.hashed
        /\ payload.len > 256  => /\ signData = Blake2b256(payload)
                                 /\ signData.hashed
                                 /\ signData.len = 32

\* C4 witness: signTx handed a payload of exactly 256 bytes to the signer
C4_Witness ==
    /\ txpc = "SignTransaction"
    /\ signerCalled
    /\ payload.len = 256
    /\ signData = payload

\* C10: on every exit path of signTx on which key bytes were decoded into
\* the buffer, the buffer holds only zeros when the call returns.
C10_KeyBufferZeroedOnReturn ==
    (txpc = "SignTransaction" /\ Len(privDecoded) > 0) =>
        /\ Len(privBuf) = Len(privDecoded)
        /\ \A k \in 1..Len(privBuf) : privBuf[k] = 0

\* the call returned a payload to sign, or a signed extrinsic
TxOutputProduced ==
    \/ txpc = "ReturnSign" /\ txErr = ""
    \/ txpc = "SignTransaction" /\ txErr = "" /\ extOut.sigKind # ""

\* C11: ReturnSign and SignTransaction reject a transaction to which SetCall
\* attached no call: they return an error and neither a payload nor a signed
\* extrinsic; whatever they produce is for a transaction with a call.
C11_RequestWithoutCallIsRejected ==
    /\ (txpc \in {"ReturnSign", "SignTransaction"} /\ ~tx.call.set) =>
          /\ txErr # ""
          /\ payload.len = 0
          /\ extOut.sigKind = ""
    /\ TxOutputProduced => tx.call.set

(***************************************************************************)
(* Claims about the runtime version check.                                 *)
(***************************************************************************)
\* the metadata of the runtime with the stored SpecVersion, fully decoded
MetadataOfStoredVersion ==
    client.Meta = [present |-> TRUE, specVersion |-> client.SpecVersion,
                   decoded |-> TRUE]

\* a call fetches the metadata exactly when the version it observed differs
\* from the stored one, and SpecVersion moves only after a successful fetch
FetchFollowsVersionChange ==
    calls > 0 =>
        /\ lastCall.fetched <=>
              (lastCall.observed /\ lastCall.specVersion # lastCall.stored)
        /\ client.SpecVersion # lastCall.stored =>
              (lastCall.fetched /\ lastCall.err = "")
        /\ (lastCall.fetched /\ lastCall.err # "") =>
              client.SpecVersion = lastCall.stored

\* the call after a failed metadata fetch fetches again when it observes the
\* same version
FailedFetchIsRetried ==
    [][(/\ lastCall.fetched /\ lastCall.err # ""
        /\ calls' = calls + 1
        /\ lastCall'.observed
        /\ lastCall'.specVersion = lastCall.specVersion)
          => lastCall'.fetched]_vars

\* C12: in every checkRuntimeVersion call on a client that started with
\* SpecVersion 0 and no metadata, the metadata is fetched exactly when the
\* observed spec version differs from the stored one, SpecVersion changes
\* only after a successful fetch and stays after a failed one, and after
\* every call that returns no error the stored metadata is present and is
\* the one fetched for the stored SpecVersion.
C12_MetadataIsThatOfSpecVersion ==
    /\ FetchFollowsVersionChange
    /\ (calls > 0 /\ lastCall.err = "") => MetadataOfStoredVersion

====
